---- MODULE Spec2Model ----
(***************************************************************************)
(* The in-process fixed-window rate limiter of src/server/security.ts:     *)
(* createRateLimiter (the bucket registry, the sweep timer and the         *)
(* request middleware) and getClientIp (the default key generator).        *)
(*                                                                         *)
(* Strings are sequences of one-character strings.  A JavaScript value     *)
(* that may be undefined is a sequence of length 0 (undefined) or 1.       *)
(* Header values are kept as the integers that String(...) renders.        *)
(***************************************************************************)
EXTENDS Integers, Sequences, FiniteSets, TLC

\* ------------------------------------------------------------------ bounds

\* The clock moves in steps of TimeStep ms, at most MaxTicks times.
TimeStep == 500
MaxTicks == 5
\* At most MaxLog requests of one key are observed within one window instance.
MaxLog == 4
\* The clock is set back at most MaxBack times.
MaxBack == 1
\* Under the wide range of options the clock advances at most ConfigTicks times.
ConfigTicks == 2
\* With two limiters the clock advances at most TwoTicks times.
TwoTicks == 2
\* While the options object is changed the clock advances at most MutateTicks times.
MutateTicks == 2

\* ------------------------------------------------------------- JS helpers

Undefined == <<>>
Some(v) == <<v>>

MathMax(a, b) == IF a >= b THEN a ELSE b
MathMin(a, b) == IF a <= b THEN a ELSE b

CeilDiv1000Floor(x) == x \div 1000

\* Math.ceil(x / 1000) for an integer x
CeilDiv1000(x) == (x + 999) \div 1000

\* ------------------------------------------------------------ getClientIp

UNKNOWN == <<"u", "n", "k", "n", "o", "w", "n">>

\* s.split(",")[0]: the text before the first comma (all of s without one)
RECURSIVE SplitFirst(_)
SplitFirst(s) ==
  IF s = <<>> \/ Head(s) = "," THEN <<>>
  ELSE <<Head(s)>> \o SplitFirst(Tail(s))

RECURSIVE TrimStart(_)
TrimStart(s) ==
  IF s # <<>> /\ Head(s) = " " THEN TrimStart(Tail(s)) ELSE s

RECURSIVE TrimEnd(_)
TrimEnd(s) ==
  IF s # <<>> /\ s[Len(s)] = " " THEN TrimEnd(SubSeq(s, 1, Len(s) - 1)) ELSE s

TrimStartOnly(s) == TrimStart(s)

\* s.trim()
Trim(s) == TrimEnd(TrimStart(s))

\* A header is undefined, a string [str |-> s] or an array [arr |-> <<s1, ..>>].
IsArray(h) == h # Undefined /\ "arr" \in DOMAIN h[1]

\* Array.isArray(header) ? header[0] : header, as an optional string
FirstOf(header) ==
  IF IsArray(header)
  THEN (IF header[1].arr = <<>> THEN Undefined ELSE Some(header[1].arr[1]))
  ELSE (IF header = Undefined THEN Undefined ELSE Some(header[1].str))

\* a || b on optional strings: a when it is defined and not ""
OrElse(a, b) == IF a # Undefined /\ a[1] # <<>> THEN a ELSE b

getClientIpPeerFirst(req) ==
  LET first == FirstOf(req.xff)
      peer == OrElse(req.ip, req.remoteAddress)
  IN IF peer # Undefined /\ peer[1] # <<>> THEN peer[1]
     ELSE IF first # Undefined /\ Len(first[1]) > 0 THEN Trim(SplitFirst(first[1]))
     ELSE UNKNOWN

getClientIp(req) ==
  LET first == FirstOf(req.xff) IN
  IF first # Undefined /\ Len(first[1]) > 0
  THEN Trim(SplitFirst(first[1]))
  ELSE OrElse(OrElse(req.ip, req.remoteAddress), Some(UNKNOWN))[1]

\* -------------------------------------------------------------- the inputs

ipA == <<"9">>
ipP == <<"7">>
ipQ == <<"8">>

Str(s) == Some([str |-> s])

\* the requests the middleware is driven with
Requests ==
  { [xff |-> Str(ipA \o <<",", " ">> \o ipP), ip |-> Some(ipP), remoteAddress |-> Some(ipP)],
    [xff |-> Str(<<" ">> \o ipA), ip |-> Some(ipQ), remoteAddress |-> Some(ipQ)],
    [xff |-> Undefined, ip |-> Undefined, remoteAddress |-> Undefined] }

Slow == <<"s", "l", "o", "w">>

\* the options createRateLimiter is called with
OptionChoices ==
  { [windowMs |-> 0, max |-> 0, message |-> Undefined],
    [windowMs |-> 1500, max |-> 2, message |-> Some(Slow)],
    [windowMs |-> 1000, max |-> 3, message |-> Some(<<>>)] }

\* "Too many requests. Please try again later."
DefaultMessage ==
  << "T", "o", "o", " ", "m", "a", "n", "y", " ", "r", "e", "q", "u", "e",
     "s", "t", "s", ".", " ", "P", "l", "e", "a", "s", "e", " ", "t", "r",
     "y", " ", "a", "g", "a", "i", "n", " ", "l", "a", "t", "e", "r", "." >>

\* ------------------------------------------------------------------- state

VARIABLES
  options,   \* the options object handed to createRateLimiter
  windowMs,  \* const windowMs of the closure
  max,       \* const max of the closure
  buckets,   \* the Map<string, Bucket>: per key its bucket, Undefined when absent
  timerAt,   \* the earliest time (on the timers' clock) the interval timer fires next
  clock,     \* Date.now()
  last,      \* the locals and the response of the latest middleware invocation
  winLog,    \* per key, the outcomes of the requests handled in its current bucket
  winStart,  \* per key, the time of the request that created its current bucket
  backs,     \* how often the clock has been set back
  ticks,     \* how often the clock has advanced
  created,   \* the options as they were when createRateLimiter was called
  shadow,    \* the registry of a limiter that handles the same requests and never sweeps
  accepts,   \* per key, the times of its forwarded requests of the last windowMs
  openedBy,  \* per key, the request that created its current bucket
  probe,     \* a request and the key getClientIp derives from it
  inst2      \* the closure of a second createRateLimiter call

limiterVars ==
  <<options, windowMs, max, buckets, timerAt, clock, last, winLog, winStart, backs, ticks>>

observerVars == <<created, shadow, accepts, openedBy, probe, inst2>>

vars == <<limiterVars, observerVars>>

Keys == {getClientIp(r) : r \in Requests}

keyGenerator(req) == getClientIp(req)

SweepIntervalLongest == MathMax(windowMs, 60000)

SweepInterval == MathMin(windowMs, 60000)

\* What createRateLimiter hands to its caller (line 39): the middleware alone.
\* The handle setInterval returns (lines 32-37) is not kept.
Exposed == {"middleware"}

\* the time the timers run on: it only advances, also when Date.now() is set back
Elapsed == ticks * TimeStep

HeaderNames == {"Retry-After", "X-RateLimit-Limit", "X-RateLimit-Remaining", "X-RateLimit-Reset"}

\* the response object before the middleware touches it
FreshRes ==
  [status |-> 0, body |-> Undefined, headers |-> [n \in HeaderNames |-> Undefined],
   nextCalls |-> 0]

NoCall == [req |-> Undefined, key |-> Undefined, now |-> 0, existing |-> Undefined,
           res |-> FreshRes]

\* res.setHeader(name, value)
SetHeader(res, name, value) == [res EXCEPT !.headers[name] = Some(value)]

CallNextDropped(res) == res

\* next()
CallNext(res) == [res EXCEPT !.nextCalls = @ + 1]

\* res.status(code).json(body)
SendJson(res, code, body) == [res EXCEPT !.status = code, !.body = Some(body)]

MapGetSkipsUnknown(m, key) == IF key = UNKNOWN THEN Undefined ELSE m[key]

\* buckets.get(key): Undefined when the map has no entry
MapGet(m, key) == m[key]

MapSetShared(m, key, bucket) == [k \in DOMAIN m |-> Some(bucket)]

\* buckets.set(key, bucket)
MapSet(m, key, bucket) == [m EXCEPT ![key] = Some(bucket)]

\* buckets.delete(key)
MapDelete(m, key) == [m EXCEPT ![key] = Undefined]

NoBuckets == [k \in Keys |-> Undefined]

\* the observers that a specification does not use stay as they start
ObserversOff ==
  /\ shadow = [buckets |-> NoBuckets, existing |-> Undefined]
  /\ accepts = [k \in Keys |-> <<>>]
  /\ openedBy = [k \in Keys |-> Undefined]
  /\ probe = Undefined
  /\ inst2 = Undefined

Init ==
  /\ options \in OptionChoices
  /\ windowMs = MathMax(1000, options.windowMs)
  /\ max = MathMax(1, options.max)
  /\ buckets = NoBuckets
  /\ timerAt = SweepInterval
  /\ clock = 0
  /\ last = NoCall
  /\ winLog = [k \in Keys |-> <<>>]
  /\ winStart = [k \in Keys |-> Undefined]
  /\ backs = 0
  /\ ticks = 0
  /\ created = options
  /\ ObserversOff

\* ------------------------------------------------------------ the handler

IsExpiredStrict(existing, now) == existing = Undefined \/ existing[1].resetAt < now

\* if (!existing || existing.resetAt <= now)
IsExpired(existing, now) == existing = Undefined \/ existing[1].resetAt <= now

OverLimitLate(existing) == existing[1].count > max

OverLimitEarly(existing) == existing[1].count + 1 >= max

\* if (existing.count >= max)
OverLimit(existing) == existing[1].count >= max

NewWindowKeepsReset(key, now) ==
  MapSet(buckets, key,
         [count |-> 1,
          resetAt |-> IF buckets[key] = Undefined THEN now + windowMs
                      ELSE buckets[key][1].resetAt])

\* lines 45-49: open a new window
NewWindowBuckets(key, now) == MapSet(buckets, key, [count |-> 1, resetAt |-> now + windowMs])

NewWindowRes(now) ==
  CallNext(
    SetHeader(
      SetHeader(
        SetHeader(FreshRes, "X-RateLimit-Limit", max),
        "X-RateLimit-Remaining", max - 1),
      "X-RateLimit-Reset", CeilDiv1000(now + windowMs)))

RetryAfterMilliseconds(existing, now) == MathMax(1, existing[1].resetAt - now)

\* lines 53-60: reject
RetryAfterSeconds(existing, now) == MathMax(1, CeilDiv1000(existing[1].resetAt - now))

ErrorMessage == IF options.message # Undefined /\ options.message[1] # <<>>
                THEN options.message[1] ELSE DefaultMessage

RejectResMovedReset(existing, now) ==
  SendJson(
    SetHeader(
      SetHeader(
        SetHeader(
          SetHeader(FreshRes, "Retry-After", RetryAfterSeconds(existing, now)),
          "X-RateLimit-Limit", max),
        "X-RateLimit-Remaining", 0),
      "X-RateLimit-Reset", CeilDiv1000(now + windowMs)),
    429, [error |-> ErrorMessage])

RejectRes(existing, now) ==
  SendJson(
    SetHeader(
      SetHeader(
        SetHeader(
          SetHeader(FreshRes, "Retry-After", RetryAfterSeconds(existing, now)),
          "X-RateLimit-Limit", max),
        "X-RateLimit-Remaining", 0),
      "X-RateLimit-Reset", CeilDiv1000(existing[1].resetAt)),
    429, [error |-> ErrorMessage])

\* lines 63-64: existing.count += 1; buckets.set(key, existing)
Incremented(existing) == [existing[1] EXCEPT !.count = @ + 1]

AcceptResStale(bucket) ==
  CallNext(
    SetHeader(
      SetHeader(
        SetHeader(FreshRes, "X-RateLimit-Limit", max),
        "X-RateLimit-Remaining", MathMax(0, max - (bucket.count - 1))),
      "X-RateLimit-Reset", CeilDiv1000(bucket.resetAt)))

\* lines 65-68
AcceptRes(bucket) ==
  CallNext(
    SetHeader(
      SetHeader(
        SetHeader(FreshRes, "X-RateLimit-Limit", max),
        "X-RateLimit-Remaining", MathMax(0, max - bucket.count)),
      "X-RateLimit-Reset", CeilDiv1000(bucket.resetAt)))

\* which of the three paths the middleware takes
Branch(existing, now) ==
  IF IsExpired(existing, now) THEN "new"
  ELSE IF OverLimit(existing) THEN "reject"
  ELSE "accept"

BucketsAfterCountingRejects(key, now) ==
  LET existing == MapGet(buckets, key) IN
  CASE Branch(existing, now) = "new" -> NewWindowBuckets(key, now)
    [] Branch(existing, now) = "reject" -> MapSet(buckets, key, Incremented(existing))
    [] Branch(existing, now) = "accept" -> MapSet(buckets, key, Incremented(existing))

BucketsAfterRejectExtends(key, now) ==
  LET existing == MapGet(buckets, key) IN
  CASE Branch(existing, now) = "new" -> NewWindowBuckets(key, now)
    [] Branch(existing, now) = "reject" ->
         MapSet(buckets, key, [existing[1] EXCEPT !.resetAt = now + windowMs])
    [] Branch(existing, now) = "accept" -> MapSet(buckets, key, Incremented(existing))

\* the registry after the middleware has handled a request of `key` at `now`
BucketsAfter(key, now) ==
  LET existing == MapGet(buckets, key) IN
  CASE Branch(existing, now) = "new" -> NewWindowBuckets(key, now)
    [] Branch(existing, now) = "reject" -> buckets
    [] Branch(existing, now) = "accept" -> MapSet(buckets, key, Incremented(existing))

\* the response after the middleware has handled a request of `key` at `now`
ResAfter(key, now) ==
  LET existing == MapGet(buckets, key) IN
  CASE Branch(existing, now) = "new" -> NewWindowRes(now)
    [] Branch(existing, now) = "reject" -> RejectRes(existing, now)
    [] Branch(existing, now) = "accept" -> AcceptRes(Incremented(existing))

\* what the client of this request observed
Outcome(res) == [status |-> res.status, nextCalls |-> res.nextCalls,
                 remaining |-> res.headers["X-RateLimit-Remaining"]]

\* the middleware, lines 39-69
Request(req) ==
  LET now == clock
      key == keyGenerator(req)
      existing == MapGet(buckets, key)
      res == ResAfter(key, now)
      opens == Branch(existing, now) = "new"
  IN
  /\ opens \/ Len(winLog[key]) < MaxLog
  /\ buckets' = BucketsAfter(key, now)
  /\ last' = [req |-> Some(req), key |-> Some(key), now |-> now,
              existing |-> existing, res |-> res]
  /\ winLog' = [winLog EXCEPT ![key] =
                  IF opens THEN <<Outcome(res)>> ELSE Append(@, Outcome(res))]
  /\ winStart' = [winStart EXCEPT ![key] = IF opens THEN Some(now) ELSE @]
  /\ UNCHANGED <<options, windowMs, max, timerAt, clock, backs, ticks>>

SweptBucketsEager(now) ==
  [k \in Keys |->
     IF buckets[k] # Undefined /\ buckets[k][1].resetAt - windowMs <= now
     THEN MapDelete(buckets, k)[k] ELSE buckets[k]]

SweptBucketsStrict(now) ==
  [k \in Keys |->
     IF buckets[k] # Undefined /\ buckets[k][1].resetAt < now
     THEN MapDelete(buckets, k)[k] ELSE buckets[k]]

\* the interval callback, lines 32-36
SweptBuckets(now) ==
  [k \in Keys |->
     IF buckets[k] # Undefined /\ buckets[k][1].resetAt <= now
     THEN MapDelete(buckets, k)[k] ELSE buckets[k]]

Sweep ==
  LET now == clock IN
  /\ Elapsed >= timerAt
  /\ buckets' = SweptBuckets(now)
  /\ timerAt' = Elapsed + SweepInterval
  /\ winLog' = [k \in Keys |-> IF buckets'[k] = Undefined THEN <<>> ELSE winLog[k]]
  /\ winStart' = [k \in Keys |-> IF buckets'[k] = Undefined THEN Undefined ELSE winStart[k]]
  /\ UNCHANGED <<options, windowMs, max, clock, last, backs, ticks>>

\* time passes
Tick ==
  /\ ticks < MaxTicks
  /\ ticks' = ticks + 1
  /\ clock' = clock + TimeStep
  /\ UNCHANGED <<options, windowMs, max, buckets, timerAt, last, winLog, winStart, backs>>

Next ==
  \/ \E req \in Requests : Request(req) /\ UNCHANGED observerVars
  \/ Sweep /\ UNCHANGED observerVars
  \/ Tick /\ UNCHANGED observerVars

Spec == Init /\ [][Next]_vars

\* ------------------------------------------- the forwarded requests in time

\* the times in ts that an interval of length windowMs ending at or after now can hold
Recent(ts, now) == SelectSeq(ts, LAMBDA t : t + windowMs >= now)

\* one key is timed at a time: k is, or can be, when no other key has times noted
Timed(k) == \A j \in Keys \ {k} : accepts[j] = <<>>

\* a request, with the time noted when it is forwarded
RequestTimed(req) ==
  /\ Request(req)
  /\ accepts' = [accepts EXCEPT ![keyGenerator(req)] =
                   IF Timed(keyGenerator(req)) /\ last'.res.nextCalls >= 1
                   THEN Append(Recent(@, clock), clock)
                   ELSE Recent(@, clock)]
  /\ UNCHANGED <<created, shadow, openedBy, probe, inst2>>

NextTimed ==
  \/ \E req \in Requests : RequestTimed(req)
  \/ Sweep /\ UNCHANGED observerVars
  \/ Tick /\ UNCHANGED observerVars

SpecTimed == Init /\ [][NextTimed]_vars

\* ------------------------------------------------- the range of options

WideOptions ==
  [windowMs : {-1000, 0, 999, 1000, 1001}, max : {-2, 0, 1, 2}, message : {Undefined}]

EffectiveWindowMsUnfloored(o) == o.windowMs

\* line 28
EffectiveWindowMs(o) == MathMax(1000, o.windowMs)

\* line 29
EffectiveMax(o) == MathMax(1, o.max)

\* createRateLimiter(options) for any of the wide options
InitConfig ==
  /\ options \in WideOptions
  /\ windowMs = EffectiveWindowMs(options)
  /\ max = EffectiveMax(options)
  /\ buckets = NoBuckets
  /\ timerAt = SweepInterval
  /\ clock = 0
  /\ last = NoCall
  /\ winLog = [k \in Keys |-> <<>>]
  /\ winStart = [k \in Keys |-> Undefined]
  /\ backs = 0
  /\ ticks = 0
  /\ created = options
  /\ ObserversOff

NextConfig ==
  \/ \E req \in Requests : Request(req) /\ UNCHANGED observerVars
  \/ Sweep /\ UNCHANGED observerVars
  \/ ticks < ConfigTicks /\ Tick /\ UNCHANGED observerVars

SpecConfig == InitConfig /\ [][NextConfig]_vars

\* ------------------------------------------------ getClientIp on its own

Arr(ss) == Some([arr |-> ss])

\* x-forwarded-for: absent, a string, or an array of strings
KeyHeaders ==
  { Undefined,
    Str(<<>>),
    Str(ipA),
    Str(ipA \o <<",", " ">> \o ipP),
    Str(<<" ">> \o ipA \o <<" ", ",">> \o ipP),
    Str(<<",", " ">> \o ipP),
    Str(<<" ", " ", " ">>),
    Str(<<" ", ",">>),
    Arr(<<>>),
    Arr(<< <<>> >>),
    Arr(<< ipA \o <<",">> \o ipP, ipQ >>) }

\* req.ip, req.socket.remoteAddress: undefined, "" or an address
KeyAddresses == {Undefined, Some(<<>>), Some(ipP), Some(ipQ)}

KeyInputs == [xff : KeyHeaders, ip : KeyAddresses, remoteAddress : KeyAddresses]

\* getClientIp(req) is called
Probe(req) ==
  /\ probe' = Some([req |-> req, key |-> getClientIp(req)])
  /\ UNCHANGED <<limiterVars, created, shadow, accepts, openedBy, inst2>>

NextKey == \E req \in KeyInputs : Probe(req)

SpecKey == Init /\ [][NextKey]_vars

\* ------------------------------------------- clients without an address

\* requests of different clients that carry neither a forwarded value nor an address
AnonRequests ==
  { [xff |-> Undefined, ip |-> Undefined, remoteAddress |-> Undefined, client |-> "a"],
    [xff |-> Undefined, ip |-> Undefined, remoteAddress |-> Undefined, client |-> "b"],
    [xff |-> Str(<<>>), ip |-> Some(<<>>), remoteAddress |-> Undefined, client |-> "c"] }

\* a client that has an address
KnownRequests ==
  { [xff |-> Str(ipA), ip |-> Some(ipP), remoteAddress |-> Some(ipP), client |-> "d"] }

\* a request, with the request noted that creates a bucket
RequestOpening(req) ==
  /\ Request(req)
  /\ openedBy' = [openedBy EXCEPT ![keyGenerator(req)] =
                    IF IsExpired(MapGet(buckets, keyGenerator(req)), clock)
                    THEN Some(req) ELSE @]
  /\ UNCHANGED <<created, shadow, accepts, probe, inst2>>

NextAnon ==
  \/ \E req \in AnonRequests \cup KnownRequests : RequestOpening(req)
  \/ Sweep /\ UNCHANGED observerVars
  \/ Tick /\ UNCHANGED observerVars

SpecAnon == Init /\ [][NextAnon]_vars

\* ------------------------------------- the options object changed afterwards

Late == <<"l", "a", "t", "e">>
Fixed == <<"f">>

\* what the caller's options object holds after it was changed
ChangedOptions ==
  { [windowMs |-> 5000, max |-> 1, message |-> Some(Late), keyGenerator |-> Some(Fixed)],
    [windowMs |-> 5000, max |-> 1, message |-> Undefined, keyGenerator |-> Undefined] }

\* The caller assigns fields of the object it passed to createRateLimiter. The
\* closure keeps the reference `options` (line 26) and its own windowMs, max and
\* keyGenerator (lines 28-30).
ChangeOptions(o) ==
  /\ options # o
  /\ options' = o
  /\ UNCHANGED <<windowMs, max, buckets, timerAt, clock, last, winLog, winStart, backs, ticks>>
  /\ UNCHANGED observerVars

NextChanged ==
  \/ \E req \in Requests : Request(req) /\ UNCHANGED observerVars
  \/ Sweep /\ UNCHANGED observerVars
  \/ ticks < MutateTicks /\ Tick /\ UNCHANGED observerVars
  \/ \E o \in ChangedOptions : ChangeOptions(o)

SpecChanged == Init /\ [][NextChanged]_vars

\* setInterval keeps firing the callback and time keeps passing
SpecLive ==
  /\ Init
  /\ [][Next]_vars
  /\ WF_vars(Sweep /\ UNCHANGED observerVars)
  /\ WF_vars(Tick /\ UNCHANGED observerVars)

\* Date.now() is the wall clock: it may also be set back
ClockBack ==
  /\ backs < MaxBack
  /\ backs' = backs + 1
  /\ clock >= TimeStep
  /\ clock' = clock - TimeStep
  /\ UNCHANGED <<options, windowMs, max, buckets, timerAt, last, winLog, winStart, ticks>>

NextAnyClock ==
  \/ \E req \in Requests : Request(req) /\ UNCHANGED observerVars
  \/ Sweep /\ UNCHANGED observerVars
  \/ Tick /\ UNCHANGED observerVars
  \/ ClockBack /\ UNCHANGED observerVars

SpecAnyClock == Init /\ [][NextAnyClock]_vars

\* ------------------------------------------- the handler of any closure

\* options.message || "Too many requests. Please try again later."
MessageOf(o) == IF o.message # Undefined /\ o.message[1] # <<>>
                THEN o.message[1] ELSE DefaultMessage

\* The middleware (lines 39-69) of the closure c = [options, windowMs, max, buckets]
\* handling a request of `key` at `now`: the closure's registry and the response.
HandledBy(c, key, now) ==
  LET existing == MapGet(c.buckets, key) IN
  IF IsExpired(existing, now)
  THEN [buckets |-> MapSet(c.buckets, key, [count |-> 1, resetAt |-> now + c.windowMs]),
        res |-> CallNext(
                  SetHeader(
                    SetHeader(
                      SetHeader(FreshRes, "X-RateLimit-Limit", c.max),
                      "X-RateLimit-Remaining", c.max - 1),
                    "X-RateLimit-Reset", CeilDiv1000(now + c.windowMs)))]
  ELSE IF existing[1].count >= c.max
  THEN [buckets |-> c.buckets,
        res |-> SendJson(
                  SetHeader(
                    SetHeader(
                      SetHeader(
                        SetHeader(FreshRes, "Retry-After",
                                  MathMax(1, CeilDiv1000(existing[1].resetAt - now))),
                        "X-RateLimit-Limit", c.max),
                      "X-RateLimit-Remaining", 0),
                    "X-RateLimit-Reset", CeilDiv1000(existing[1].resetAt)),
                  429, [error |-> MessageOf(c.options)])]
  ELSE [buckets |-> MapSet(c.buckets, key, Incremented(existing)),
        res |-> CallNext(
                  SetHeader(
                    SetHeader(
                      SetHeader(FreshRes, "X-RateLimit-Limit", c.max),
                      "X-RateLimit-Remaining",
                      MathMax(0, c.max - Incremented(existing).count)),
                    "X-RateLimit-Reset", CeilDiv1000(existing[1].resetAt)))]

\* the closure of the limiter itself
OwnClosure == [options |-> options, windowMs |-> windowMs, max |-> max, buckets |-> buckets]

\* ------------------------------------------------- the never-swept limiter

\* the same closure over the registry that no sweep has touched
ShadowClosure == [OwnClosure EXCEPT !.buckets = shadow.buckets]

\* a request, handled by the limiter and by the never-swept one
RequestShadowed(req) ==
  /\ Request(req)
  /\ shadow' = [buckets |-> HandledBy(ShadowClosure, keyGenerator(req), clock).buckets,
                existing |-> MapGet(shadow.buckets, keyGenerator(req))]
  /\ UNCHANGED <<created, accepts, openedBy, probe, inst2>>

NextShadow ==
  \/ \E req \in Requests : RequestShadowed(req)
  \/ Sweep /\ UNCHANGED observerVars
  \/ Tick /\ UNCHANGED observerVars

SpecShadow == Init /\ [][NextShadow]_vars

\* ---------------------------------------------------------- two limiters

\* the options of the second createRateLimiter call
TwoOptions == { [windowMs |-> 1000, max |-> 1, message |-> Undefined] }

\* the requests the first limiter sees while there are two: the key of ipA,
\* sent both ways; the second limiter sees all Requests
TwoRequests == { req \in Requests : keyGenerator(req) = ipA }

\* createRateLimiter(o) is called a second time, lines 26-37
CreateSecond(o) ==
  /\ inst2 = Undefined
  /\ inst2' = Some([options |-> o,
                    windowMs |-> EffectiveWindowMs(o),
                    max |-> EffectiveMax(o),
                    buckets |-> NoBuckets,
                    timerAt |-> Elapsed + MathMin(EffectiveWindowMs(o), 60000),
                    res |-> FreshRes])
  /\ UNCHANGED <<limiterVars, created, shadow, accepts, openedBy, probe>>

SecondHandlesInSharedMap(key, now) ==
  LET h == HandledBy([inst2[1] EXCEPT !.buckets = buckets], key, now)
  IN [first |-> h.buckets, second |-> h.buckets, res |-> h.res]

\* The second limiter's middleware handles a request: the registry of the first
\* limiter, the registry of the second (each call has its own Map, line 27)
\* and the response.
SecondHandles(key, now) ==
  LET h == HandledBy(inst2[1], key, now)
  IN [first |-> buckets, second |-> h.buckets, res |-> h.res]

\* the middleware of the second limiter
RequestSecond(req) ==
  /\ inst2 # Undefined
  /\ buckets' = SecondHandles(keyGenerator(req), clock).first
  /\ inst2' = Some([inst2[1] EXCEPT
                      !.buckets = SecondHandles(keyGenerator(req), clock).second,
                      !.res = SecondHandles(keyGenerator(req), clock).res])
  /\ UNCHANGED <<options, windowMs, max, timerAt, clock, last, winLog, winStart, backs, ticks>>
  /\ UNCHANGED <<created, shadow, accepts, openedBy, probe>>

\* the interval callback (lines 32-36) over a given registry
SweptOf(m, now) ==
  [k \in Keys |->
     IF m[k] # Undefined /\ m[k][1].resetAt <= now THEN MapDelete(m, k)[k] ELSE m[k]]

\* the interval callback of the second limiter
SweepSecond ==
  /\ inst2 # Undefined
  /\ Elapsed >= inst2[1].timerAt
  /\ inst2' = Some([inst2[1] EXCEPT
                      !.buckets = SweptOf(@, clock),
                      !.timerAt = Elapsed + MathMin(inst2[1].windowMs, 60000)])
  /\ UNCHANGED <<limiterVars, created, shadow, accepts, openedBy, probe>>

NextTwo ==
  \/ \E req \in TwoRequests : RequestShadowed(req)
  \/ Sweep /\ UNCHANGED observerVars
  \/ ticks < TwoTicks /\ Tick /\ UNCHANGED observerVars
  \/ \E o \in TwoOptions : CreateSecond(o)
  \/ \E req \in Requests : RequestSecond(req)
  \/ SweepSecond

SpecTwo == Init /\ [][NextTwo]_vars

\* ----------------------------------- the same requests from another peer

\* the peer addresses a request comes from
PeerAddresses == {Some(ipP), Some(ipQ)}

\* Requests that carry a forwarded value; a forwarded value is any text, here
\* ipA and the text "unknown".
PeerRequests ==
  { [xff |-> Str(v), ip |-> a, remoteAddress |-> a] :
      v \in {ipA \o <<",">> \o ipQ, UNKNOWN}, a \in PeerAddresses }

\* the same request coming from another peer
WithPeer(req, peer) == [req EXCEPT !.ip = peer, !.remoteAddress = peer]

\* A request is handled, and in a second run of the same limiter the same
\* request is handled coming from `peer`.
RequestTwin(req, peer) ==
  /\ Request(req)
  /\ shadow' = [buckets |-> HandledBy(ShadowClosure, keyGenerator(WithPeer(req, peer)),
                                      clock).buckets,
                existing |-> MapGet(shadow.buckets, keyGenerator(WithPeer(req, peer)))]
  /\ probe' = Some([req |-> WithPeer(req, peer), key |-> getClientIp(WithPeer(req, peer))])
  /\ UNCHANGED <<created, accepts, openedBy, inst2>>

\* the interval callback in both runs
SweepTwin ==
  /\ Sweep
  /\ shadow' = [shadow EXCEPT !.buckets = SweptOf(@, clock)]
  /\ UNCHANGED <<created, accepts, openedBy, probe, inst2>>

NextPeers ==
  \/ \E req \in PeerRequests : \E peer \in PeerAddresses \ {req.ip} : RequestTwin(req, peer)
  \/ SweepTwin
  \/ Tick /\ UNCHANGED observerVars

SpecPeers == Init /\ [][NextPeers]_vars




\* ------------------------------------------------------------- the claims

Forwarded(o) == o.nextCalls = 1 /\ o.status = 0
Rejected(o) == o.status = 429

\* the number of requests forwarded among the first n entries of a window's log
RECURSIVE ForwardedIn(_, _)
ForwardedIn(log, n) ==
  IF n = 0 THEN 0
  ELSE ForwardedIn(log, n - 1) + (IF log[n].nextCalls >= 1 THEN 1 ELSE 0)

HasBucket(k) == buckets[k] # Undefined

\* C1: of the requests of one key handled before the resetAt set by the first of
\* them, the first max are forwarded and the (max+1)th is answered 429, whatever
\* requests of other keys and sweeps come in between.
C1_FirstMaxThenReject ==
  \A k \in Keys : \A i \in 1..Len(winLog[k]) :
    /\ i <= max => Forwarded(winLog[k][i])
    /\ i = max + 1 => Rejected(winLog[k][i]) /\ winLog[k][i].nextCalls = 0

C1_Witness ==
  \E k \in Keys : \E j \in Keys \ {k} :
    /\ max >= 2
    /\ Len(winLog[k]) = max + 1
    /\ Rejected(winLog[k][max + 1])
    /\ winLog[j] # <<>>
    /\ timerAt > SweepInterval

\* C2: while one bucket is a key's bucket, at most max requests of that key are
\* forwarded to the next handler.
C2_AtMostMaxPerWindow ==
  \A k \in Keys : ForwardedIn(winLog[k], Len(winLog[k])) <= max

C2_Witness ==
  \E k \in Keys :
    /\ ForwardedIn(winLog[k], Len(winLog[k])) = max
    /\ Len(winLog[k]) > max
    /\ backs > 0


\* C3: a request of a key whose bucket has resetAt <= now (also resetAt = now,
\* also with count = max) is forwarded, replaces the bucket by
\* {count: 1, resetAt: now + windowMs} and carries X-RateLimit-Remaining = max - 1.
C3_ExpiredBucketReplaced ==
  [][\A req \in Requests :
       LET key == keyGenerator(req) IN
       (Request(req) /\ HasBucket(key) /\ buckets[key][1].resetAt <= clock) =>
         /\ Forwarded(last'.res)
         /\ buckets'[key] = Some([count |-> 1, resetAt |-> clock + windowMs])
         /\ last'.res.headers["X-RateLimit-Remaining"] = Some(max - 1)]_vars

C3_Witness ==
  /\ max >= 2
  /\ last.existing # Undefined
  /\ last.existing[1].resetAt = last.now
  /\ last.existing[1].count = max
  /\ Forwarded(last.res)
  /\ buckets[last.key[1]] = Some([count |-> 1, resetAt |-> last.now + windowMs])

\* C4: a request of key A leaves the bucket of every other key B as it was, and
\* whether a request of key B is rejected is decided by the earlier requests of
\* key B in its window (how many were forwarded, when the first came) and the clock.
C4_KeysIsolated ==
  [][\A req \in Requests :
       LET a == keyGenerator(req) IN
       Request(req) =>
         /\ \A b \in Keys \ {a} : buckets'[b] = buckets[b]
         /\ Rejected(last'.res) <=>
              /\ winStart[a] # Undefined
              /\ clock < winStart[a][1] + windowMs
              /\ ForwardedIn(winLog[a], Len(winLog[a])) >= max]_vars

C4_Witness ==
  \E b \in Keys :
    /\ last.key # Undefined
    /\ last.key[1] # b
    /\ Rejected(last.res)
    /\ HasBucket(b)
    /\ buckets[b][1].count < max
    /\ buckets[b][1].resetAt > clock

\* C5: an invocation either calls next exactly once and sends nothing, or sends
\* 429 with the body {error: message} and does not call next.
C5_ExactlyOneOutcome ==
  last.req # Undefined =>
    \/ /\ last.res.nextCalls = 1
       /\ last.res.status = 0
       /\ last.res.body = Undefined
    \/ /\ last.res.nextCalls = 0
       /\ last.res.status = 429
       /\ last.res.body =
            Some([error |-> IF options.message \in {Undefined, Some(<<>>)}
                            THEN DefaultMessage ELSE options.message[1]])

C5_Witness ==
  /\ last.res.status = 429
  /\ last.res.body = Some([error |-> Slow])
  /\ \E k \in Keys : winLog[k] # <<>> /\ Forwarded(winLog[k][Len(winLog[k])])

\* C6: a request is rejected exactly when its key has a bucket with resetAt > now
\* and count >= max; never while fewer than max requests of the key were forwarded
\* in the window, never because of an expired bucket not yet swept.
C6_RejectedIffActiveAndFull ==
  [][\A req \in Requests :
       LET key == keyGenerator(req) IN
       Request(req) =>
         /\ Rejected(last'.res) <=>
              /\ HasBucket(key)
              /\ buckets[key][1].resetAt > clock
              /\ buckets[key][1].count >= max
         /\ Rejected(last'.res) => ForwardedIn(winLog[key], Len(winLog[key])) >= max]_vars

C6_Witness ==
  /\ max >= 2
  /\ Rejected(last.res)
  /\ last.existing[1].count = max
  /\ last.existing[1].resetAt > last.now
  /\ timerAt > SweepInterval

\* C7: in one window of a key the forwarded requests carry X-RateLimit-Remaining
\* max-1, max-2, ..., each one less than the one before and never negative, and
\* every rejected request carries 0.
C7_RemainingCountsDown ==
  \A k \in Keys : \A i \in 1..Len(winLog[k]) :
    LET o == winLog[k][i] IN
    /\ o.remaining # Undefined
    /\ o.remaining[1] >= 0
    /\ Forwarded(o) => o.remaining[1] = max - ForwardedIn(winLog[k], i)
    /\ Rejected(o) => o.remaining[1] = 0

C7_Witness ==
  \E k \in Keys :
    /\ max = 3
    /\ Len(winLog[k]) = 4
    /\ winLog[k][1].remaining = Some(2)
    /\ winLog[k][2].remaining = Some(1)
    /\ winLog[k][3].remaining = Some(0)
    /\ Forwarded(winLog[k][3])
    /\ Rejected(winLog[k][4])

\* C8: on a rejected request Retry-After is max(1, ceil((resetAt - now)/1000)):
\* the least integer r >= 1 with 1000 * r >= resetAt - now.
C8_RetryAfter ==
  Rejected(last.res) =>
    LET d == last.existing[1].resetAt - last.now
        r == last.res.headers["Retry-After"]
    IN /\ r # Undefined
       /\ r[1] >= 1
       /\ 1000 * r[1] >= d
       /\ r[1] = 1 \/ 1000 * (r[1] - 1) < d

C8_Witness ==
  /\ Rejected(last.res)
  /\ last.existing[1].resetAt - last.now = 1500
  /\ last.res.headers["Retry-After"] = Some(2)

\* C9 as claimed: a rejected request raises the bucket's count by 1.
C9_RejectionCounts ==
  [][\A req \in Requests :
       LET key == keyGenerator(req) IN
       (Request(req) /\ Rejected(last'.res)) =>
         buckets'[key][1].count = buckets[key][1].count + 1]_vars

\* C9 (amended): a bucket's count starts at 1 and is raised by 1 by every later
\* forwarded request of its key in the window; a rejected request leaves the
\* count as it was.
C9_CountCountsForwarded ==
  [][\A req \in Requests :
       LET key == keyGenerator(req) IN
       Request(req) =>
         /\ (~HasBucket(key) \/ buckets[key][1].resetAt <= clock) =>
              buckets'[key][1].count = 1
         /\ (HasBucket(key) /\ buckets[key][1].resetAt > clock /\ Forwarded(last'.res)) =>
              buckets'[key][1].count = buckets[key][1].count + 1
         /\ Rejected(last'.res) =>
              buckets'[key][1].count = buckets[key][1].count]_vars

C9_Witness ==
  /\ Rejected(last.res)
  /\ Len(winLog[last.key[1]]) >= max + 2
  /\ buckets[last.key[1]][1].count = max

\* C10: while a key's bucket keeps its resetAt its count never decreases, and a
\* count falls only in a step in which a request of the key opens a new window.
C10_CountMonotone ==
  [][\A k \in Keys :
       /\ (HasBucket(k) /\ buckets'[k] # Undefined
             /\ buckets'[k][1].resetAt = buckets[k][1].resetAt) =>
            buckets'[k][1].count >= buckets[k][1].count
       /\ (HasBucket(k) /\ buckets'[k] # Undefined
             /\ buckets'[k][1].count < buckets[k][1].count) =>
            /\ buckets'[k][1].count = 1
            /\ \E req \in Requests :
                 /\ keyGenerator(req) = k
                 /\ Request(req)
                 /\ buckets[k][1].resetAt <= clock]_vars

C10_Witness ==
  /\ max >= 2
  /\ last.existing # Undefined
  /\ last.existing[1].count = max
  /\ last.existing[1].resetAt < last.now
  /\ buckets[last.key[1]][1].count = 1
  /\ \E j \in Keys \ {last.key[1]} : HasBucket(j) /\ buckets[j][1].count = max


\* C11: a sweep at time now removes exactly the buckets with resetAt <= now and
\* leaves the count and resetAt of every other bucket as they were; it creates
\* and modifies none.
C11_SweepRemovesExactlyExpired ==
  [][Sweep =>
       \A k \in Keys :
         buckets'[k] = IF HasBucket(k) /\ buckets[k][1].resetAt > clock
                       THEN buckets[k] ELSE Undefined]_vars

C11_Witness ==
  \E k \in Keys : \E j \in Keys \ {k} :
    /\ timerAt > SweepInterval
    /\ last.key = Some(k)
    /\ ~HasBucket(k)
    /\ HasBucket(j)
    /\ buckets[j][1].count >= 2


\* the two translations of the middleware agree on the limiter's own closure
HandlerAgrees ==
  \A req \in Requests :
    HandledBy(OwnClosure, keyGenerator(req), clock) =
      [buckets |-> BucketsAfter(keyGenerator(req), clock),
       res |-> ResAfter(keyGenerator(req), clock)]

\* C12: under a non-decreasing clock every request gets the same decision and the
\* same headers from the limiter, whose sweeps run at arbitrary points, as from
\* a limiter that handles the same requests and never sweeps.
C12_SweepUnobservable ==
  [][\A req \in Requests :
       Request(req) =>
         last'.res = HandledBy(ShadowClosure, keyGenerator(req), clock).res]_vars

C12_Witness ==
  /\ max >= 2
  /\ last.existing = Undefined
  /\ shadow.existing # Undefined
  /\ shadow.existing[1].count = max
  /\ Forwarded(last.res)
  /\ buckets[last.key[1]] = shadow.buckets[last.key[1]]
  /\ \E j \in Keys : ~HasBucket(j) /\ shadow.buckets[j] # Undefined


Expired(k) == HasBucket(k) /\ buckets[k][1].resetAt <= clock

\* C13: with the sweep timer firing and time advancing, an expired bucket does not
\* stay: it is deleted by a sweep, unless a request of its key replaces it first
\* (as long as the modelled time lets the timer fire once more).
C13_ExpiredBucketGoes ==
  \A k \in Keys :
    (Expired(k) /\ timerAt <= MaxTicks * TimeStep) ~> ~Expired(k)

C13_Witness ==
  \E k \in Keys :
    /\ last.key = Some(k)
    /\ Forwarded(last.res)
    /\ last.now + windowMs <= clock
    /\ ~HasBucket(k)
    /\ winLog[k] = <<>>


\* the forwarded requests of key k in the time interval [t, t + windowMs]
ForwardedWithin(k, t) ==
  Cardinality({i \in DOMAIN accepts[k] : t <= accepts[k][i] /\ accepts[k][i] <= t + windowMs})

\* C14: under a non-decreasing clock no time interval of length windowMs holds
\* more than 2 * max forwarded requests of one key.
C14_AtMostTwiceMax ==
  \A k \in Keys : \A i \in DOMAIN accepts[k] :
    ForwardedWithin(k, accepts[k][i]) <= 2 * max

C14_Witness ==
  \E k \in Keys :
    /\ max >= 2
    /\ accepts[k] # <<>>
    /\ ForwardedWithin(k, accepts[k][1]) = 2 * max
    /\ ~HasBucket(k)


\* C15: the limiter works with windowMs' = max(1000, options.windowMs) and
\* max' = max(1, options.max), also for zero and negative options: its windows
\* last at least 1000 ms, its limit is at least 1, and the first request of a
\* key in a fresh window is forwarded.
C15_OptionsFloored ==
  /\ windowMs = (IF created.windowMs > 1000 THEN created.windowMs ELSE 1000)
  /\ max = (IF created.max > 1 THEN created.max ELSE 1)
  /\ \A k \in Keys :
       /\ HasBucket(k) =>
            /\ winStart[k] # Undefined
            /\ buckets[k][1].resetAt - winStart[k][1] >= 1000
            /\ buckets[k][1].resetAt - winStart[k][1] >= created.windowMs
       /\ winLog[k] # <<>> => Forwarded(winLog[k][1])
  /\ last.req # Undefined =>
       /\ last.res.headers["X-RateLimit-Limit"] # Undefined
       /\ last.res.headers["X-RateLimit-Limit"][1] >= 1
       /\ last.res.headers["X-RateLimit-Limit"][1] >= created.max

C15_Witness ==
  /\ created.windowMs < 0
  /\ created.max < 0
  /\ Rejected(last.res)
  /\ last.existing[1].resetAt - winStart[last.key[1]][1] = 1000
  /\ last.res.headers["X-RateLimit-Limit"] = Some(1)


\* the x-forwarded-for text of a request, if it has one: the header when it is
\* a string, its first element when it is an array
ForwardedText(req) ==
  IF req.xff = Undefined THEN Undefined
  ELSE IF "str" \in DOMAIN req.xff[1] THEN Some(req.xff[1].str)
  ELSE IF Len(req.xff[1].arr) = 0 THEN Undefined
  ELSE Some(req.xff[1].arr[1])

\* p is the first comma-separated value of s
IsFirstValue(s, p) ==
  \E n \in 0..Len(s) :
    /\ p = SubSeq(s, 1, n)
    /\ \A i \in 1..n : s[i] # ","
    /\ n = Len(s) \/ s[n + 1] = ","

\* k is p without the blanks at its two ends
IsTrimmed(p, k) ==
  \E i \in 1..(Len(p) + 1) : \E j \in 0..Len(p) :
    /\ k = SubSeq(p, i, j)
    /\ \A x \in 1..(i - 1) : p[x] = " "
    /\ \A x \in (j + 1)..Len(p) : p[x] = " "
    /\ k = <<>> \/ (k[1] # " " /\ k[Len(k)] # " ")

NoAddress(a) == a = Undefined \/ a[1] = <<>>

\* C16: the default key is the trimmed first comma-separated value of
\* x-forwarded-for when the header is present and not empty; otherwise req.ip,
\* then the socket's remote address; otherwise "unknown".
C16_KeyPrecedence ==
  probe # Undefined =>
    LET req == probe[1].req
        key == probe[1].key
        text == ForwardedText(req)
    IN IF text # Undefined /\ text[1] # <<>>
       THEN \E n \in 0..Len(text[1]) :
              /\ IsFirstValue(text[1], SubSeq(text[1], 1, n))
              /\ IsTrimmed(SubSeq(text[1], 1, n), key)
       ELSE IF ~NoAddress(req.ip) THEN key = req.ip[1]
       ELSE IF ~NoAddress(req.remoteAddress) THEN key = req.remoteAddress[1]
       ELSE key = UNKNOWN

C16_Witness ==
  /\ probe # Undefined
  /\ probe[1].req.xff = Str(<<" ">> \o ipA \o <<" ", ",">> \o ipP)
  /\ probe[1].req.ip = Some(ipQ)
  /\ probe[1].key = ipA

\* C17: a request with no peer address whose x-forwarded-for is missing or has
\* an empty or blank first value gets the key "unknown", and no key is "".
C17_MalformedFallsBack ==
  probe # Undefined =>
    LET req == probe[1].req
        key == probe[1].key
        text == ForwardedText(req)
        blank == \/ text = Undefined
                 \/ \E n \in 0..Len(text[1]) :
                      /\ IsFirstValue(text[1], SubSeq(text[1], 1, n))
                      /\ IsTrimmed(SubSeq(text[1], 1, n), <<>>)
    IN /\ (NoAddress(req.ip) /\ NoAddress(req.remoteAddress) /\ blank) => key = UNKNOWN
       /\ key # <<>>


\* C18: the requests without forwarded value and peer address all get the key
\* "unknown" and are counted in its one bucket: once max of them were forwarded
\* in a window, the next one in that window is rejected, whoever sent it.
C18_UnknownShared ==
  [][\A req \in AnonRequests :
       Request(req) =>
         /\ last'.key = Some(UNKNOWN)
         /\ \A k \in Keys \ {UNKNOWN} : buckets'[k] = buckets[k]
         /\ (/\ HasBucket(UNKNOWN)
             /\ buckets[UNKNOWN][1].resetAt > clock
             /\ ForwardedIn(winLog[UNKNOWN], Len(winLog[UNKNOWN])) >= max)
            => Rejected(last'.res)]_vars

C18_Witness ==
  /\ max >= 2
  /\ Rejected(last.res)
  /\ last.key = Some(UNKNOWN)
  /\ openedBy[UNKNOWN] # Undefined
  /\ openedBy[UNKNOWN][1].client = "a"
  /\ last.req[1].client = "c"
  /\ ForwardedIn(winLog[UNKNOWN], Len(winLog[UNKNOWN])) = max


\* C19: two limiters own separate registries: a request or a sweep of one changes
\* no bucket of the other, and the first limiter's responses are those it gives
\* with no second limiter at work, also when both see the same key.
C19_InstancesSeparate ==
  [][/\ (SweepSecond \/ \E req \in Requests : RequestSecond(req)) =>
          /\ buckets' = buckets
          /\ last' = last
     /\ (Sweep \/ \E req \in TwoRequests : Request(req)) => inst2' = inst2
     /\ \A req \in TwoRequests :
          Request(req) =>
            last'.res = HandledBy(ShadowClosure, keyGenerator(req), clock).res]_vars

C19_Witness ==
  \E k \in Keys :
    /\ inst2 # Undefined
    /\ inst2[1].res.status = 429
    /\ inst2[1].buckets[k] # Undefined
    /\ inst2[1].buckets[k][1].count = 1
    /\ HasBucket(k)
    /\ buckets[k][1].count = 2
    /\ last.key = Some(k)
    /\ Forwarded(last.res)
    /\ buckets[k][1].resetAt # inst2[1].buckets[k][1].resetAt


\* the limiter as it was constructed: the options of the createRateLimiter call
CreatedClosure ==
  [options |-> created, windowMs |-> EffectiveWindowMs(created),
   max |-> EffectiveMax(created), buckets |-> buckets]

\* With the options object changed afterwards, every response still has the
\* status, the forwarding and the headers of the limiter as constructed.
DecisionsAsCreated ==
  [][\A req \in Requests :
       Request(req) =>
         LET r == HandledBy(CreatedClosure, keyGenerator(req), clock).res IN
         /\ last'.res.status = r.status
         /\ last'.res.headers = r.headers
         /\ Forwarded(last'.res) = Forwarded(r)
         /\ last'.key = Some(getClientIp(req))]_vars

\* C20: changing the fields of the options object after createRateLimiter
\* returned changes no later response: its status, headers and 429 body are
\* those of the limiter as constructed.
C20_ConfigFixed ==
  [][\A req \in Requests :
       Request(req) =>
         last'.res = HandledBy(CreatedClosure, keyGenerator(req), clock).res]_vars

\* C21: every response carries X-RateLimit-Limit = max and X-RateLimit-Reset =
\* ceil(resetAt / 1000) of the key's bucket as it stands after the request (the
\* least s with 1000 * s >= resetAt), so a request handled in the bucket of the
\* key's previous request carries the same X-RateLimit-Reset as that one.
C21_LimitAndReset ==
  [][\A req \in Requests :
       LET key == keyGenerator(req) IN
       Request(req) =>
         LET reset == last'.res.headers["X-RateLimit-Reset"] IN
         /\ last'.res.headers["X-RateLimit-Limit"] = Some(max)
         /\ HasBucket(key)'
         /\ reset # Undefined
         /\ 1000 * reset[1] >= buckets'[key][1].resetAt
         /\ 1000 * (reset[1] - 1) < buckets'[key][1].resetAt
         /\ (HasBucket(key) /\ buckets[key][1].resetAt > clock /\ last.key = Some(key))
            => reset = last.res.headers["X-RateLimit-Reset"]]_vars

C21_Witness ==
  /\ Rejected(last.res)
  /\ max = 2
  /\ Len(winLog[last.key[1]]) = 3
  /\ buckets[last.key[1]][1].resetAt = 2000
  /\ last.now = 1000
  /\ last.res.headers["X-RateLimit-Reset"] = Some(2)
  /\ last.res.headers["X-RateLimit-Limit"] = Some(2)

\* C22: the error field of every 429 body is the message the limiter was
\* configured with; the default text is used only when no message was supplied.
C22_ConfiguredMessage ==
  Rejected(last.res) =>
    last.res.body =
      Some([error |-> IF created.message = Undefined THEN DefaultMessage
                      ELSE created.message[1]])

\* C23: besides the middleware a limiter exposes a dispose operation that
\* cancels the sweep timer: while the timer is armed, dispose is there to be called.
C23_DisposeExposed == timerAt \in Nat => "dispose" \in Exposed

\* C23 as amended: the middleware is all a limiter exposes and nothing cancels
\* the sweep timer: it is armed in every state, due at most
\* min(windowMs, 60000) ms ahead, only its own firing moves it, and each firing
\* arms it again one interval later.
C23_TimerNeverCancelled ==
  [][/\ Exposed = {"middleware"}
     /\ timerAt' \in Nat
     /\ timerAt' <= Elapsed' + MathMin(windowMs', 60000)
     /\ timerAt' # timerAt =>
          /\ Elapsed >= timerAt
          /\ timerAt' = Elapsed + MathMin(windowMs, 60000)
          /\ buckets' = SweptBuckets(clock)]_vars

C23_Witness ==
  /\ windowMs = 1000
  /\ timerAt = 3000
  /\ last.req # Undefined
  /\ \E k \in Keys : HasBucket(k) /\ buckets[k][1].resetAt > clock

\* C24: in every reachable state every bucket of the registry has
\* 1 <= count <= max, whatever requests and sweeps came before and whatever the
\* clock did.
C24_CountWithinBounds ==
  \A k \in Keys :
    HasBucket(k) => buckets[k][1].count >= 1 /\ buckets[k][1].count <= max

C24_Witness ==
  \E k \in Keys : \E j \in Keys \ {k} :
    /\ max = 3
    /\ backs > 0
    /\ timerAt > SweepInterval
    /\ HasBucket(k)
    /\ buckets[k][1].count = max
    /\ Len(winLog[k]) > max
    /\ HasBucket(j)
    /\ buckets[j][1].count = 1

\* C25: a rejected request leaves the registry as it was: the count and resetAt
\* of its key's bucket and every other bucket; rejections, however many, do not
\* extend the key's window.
C25_RejectionChangesNothing ==
  [][\A req \in Requests :
       (Request(req) /\ Rejected(last'.res)) =>
         /\ buckets' = buckets
         /\ winStart' = winStart
         /\ buckets'[keyGenerator(req)][1].resetAt =
              winStart[keyGenerator(req)][1] + windowMs]_vars

C25_Witness ==
  /\ last.key # Undefined
  /\ \E j \in Keys \ {last.key[1]} :
    LET k == last.key[1]
        n == Len(winLog[k])
    IN /\ Rejected(last.res)
       /\ n >= max + 2
       /\ Rejected(winLog[k][n - 1])
       /\ last.now > winStart[k][1]
       /\ buckets[k][1].resetAt = winStart[k][1] + windowMs
       /\ HasBucket(j)

\* C26: with a clock that never goes back, a key is not rejected at a time
\* now >= t0 + windowMs, t0 being the time of the request that opened its
\* current window: a request at or after that time is forwarded and opens the
\* next window, however full the old one was.
C26_BlockingEnds ==
  [][\A req \in Requests :
       LET key == keyGenerator(req) IN
       (Request(req) /\ winStart[key] # Undefined
          /\ clock >= winStart[key][1] + windowMs) =>
         /\ Forwarded(last'.res)
         /\ winStart'[key] = Some(clock)
         /\ winLog'[key] = <<Outcome(last'.res)>>]_vars

C26_Witness ==
  /\ windowMs = 1500
  /\ last.existing # Undefined
  /\ last.existing[1].count = max
  /\ last.existing[1].resetAt = 1500
  /\ last.now = 1500
  /\ Forwarded(last.res)
  /\ winStart[last.key[1]] = Some(1500)
  /\ timerAt = SweepInterval

\* C27: with a clock that never goes back, the Retry-After of a rejection is
\* at most ceil(windowMs / 1000), the least s with 1000 * s >= windowMs.
C27_RetryAfterAtMostWindow ==
  Rejected(last.res) =>
    LET r == last.res.headers["Retry-After"] IN
    /\ r # Undefined
    /\ 1000 * (r[1] - 1) < windowMs
    /\ last.existing[1].resetAt - last.now <= windowMs

C27_Witness ==
  /\ Rejected(last.res)
  /\ windowMs = 1500
  /\ max = 2
  /\ last.now = 1000
  /\ last.existing[1].resetAt = 2500
  /\ last.res.headers["Retry-After"] = Some(2)

\* C28: of a request with a non-empty x-forwarded-for the response does not
\* depend on the peer address: a second run handling the same requests from
\* other peers gives the same responses and has the same registry; and the
\* requests of one peer with another first forwarded value have another key,
\* whose bucket the request leaves alone, so that a request is rejected only
\* when max requests with its own forwarded value were forwarded in the window.
C28_ForwardedValueDecides ==
  [][\A req \in PeerRequests : \A peer \in PeerAddresses \ {req.ip} :
       RequestTwin(req, peer) =>
         /\ last'.res = HandledBy(ShadowClosure, keyGenerator(WithPeer(req, peer)), clock).res
         /\ shadow'.buckets = buckets'
         /\ \A other \in PeerRequests :
              (other.ip = req.ip /\ other.xff # req.xff) =>
                /\ keyGenerator(other) # keyGenerator(req)
                /\ buckets'[keyGenerator(other)] = buckets[keyGenerator(other)]
         /\ Rejected(last'.res) =>
              ForwardedIn(winLog[keyGenerator(req)], Len(winLog[keyGenerator(req)])) >= max]_vars

C28_Witness ==
  /\ probe # Undefined
  /\ \E k \in Keys \ {last.key[1]} :
       /\ max >= 2
       /\ last.req[1].ip = Some(ipP)
       /\ probe[1].req.ip = Some(ipQ)
       /\ probe[1].req.xff = last.req[1].xff
       /\ Forwarded(last.res)
       /\ HasBucket(k)
       /\ buckets[k][1].count = max
       /\ buckets[k][1].resetAt > clock
       /\ Len(winLog[k]) > max
       /\ shadow.buckets = buckets

====
